---- MODULE Spec2Model ----
(***************************************************************************)
(* The cursor-paginated, rate-limited fetch of src/exporter_improved.py:   *)
(* channel_history -> paginated_get -> get_at_cursor -> get_data ->        *)
(* _get_data.  The remote API is the environment: each transport call gets *)
(* one response, drawn from the small sets below.                          *)
(***************************************************************************)
EXTENDS Integers, Sequences, FiniteSets, TLC

(***************************************************************************)
(* Program constants.                                                      *)
(***************************************************************************)
ADDITIONAL_SLEEP_TIME == 2
MAX_RETRIES == 10

(***************************************************************************)
(* Bounds of the model.                                                    *)
(***************************************************************************)
\* the server hands out a continuation cursor on at most MaxPages - 1 pages
MaxPages == 2
\* a page lists at most MaxItems items
MaxItems == 2
\* the first VariedRetryAfter 429 responses of one request choose their
\* Retry-After freely; later ones carry DefaultRetryAfter
VariedRetryAfter == 1

(***************************************************************************)
(* Values.  A Python/JSON value is a record [t, s]: a string carries its   *)
(* characters in s, a number its decimal digits, None/null nothing.        *)
(***************************************************************************)
PyNone == [t |-> "null", s |-> <<>>]
PyStrVal(chars) == [t |-> "str", s |-> chars]
PyNum(digits) == [t |-> "num", s |-> digits]

Whitespace == {" ", "\t"}

\* str(v)
PyStr(v) == IF v.t = "null" THEN <<"N", "o", "n", "e">> ELSE v.s

RECURSIVE LStrip(_)
LStrip(s) == IF s # <<>> /\ Head(s) \in Whitespace THEN LStrip(Tail(s)) ELSE s

RECURSIVE RStrip(_)
RStrip(s) ==
    IF s # <<>> /\ s[Len(s)] \in Whitespace
    THEN RStrip(SubSeq(s, 1, Len(s) - 1))
    ELSE s

\* s.strip()
Strip(s) == RStrip(LStrip(s))

(***************************************************************************)
(* Inputs.                                                                 *)
(***************************************************************************)
\* (oldest, latest) arguments of channel_history
TimeRanges == { <<PyNone, PyNone>>, <<PyStrVal(<<"1">>), PyStrVal(<<"2">>)>> }
NoCombineKey == "None"
CombineKeys == {NoCombineKey, "messages"}

\* values the server puts in response_metadata.next_cursor
BlankCursorValues == { PyStrVal(<<>>), PyStrVal(<<" ", "\t">>) }
TokenCursorValues == { PyStrVal(<<"a">>), PyStrVal(<<" ", "a", " ">>) }
NextCursorValues == BlankCursorValues \cup TokenCursorValues \cup {PyNone}

\* values of the Retry-After header, and the one a persistently limiting
\* server settles on
RetryAfterValues == {1, 3}
DefaultRetryAfter == CHOOSE m \in RetryAfterValues : \A x \in RetryAfterValues : m <= x
\* statuses other than 200 and 429
ErrorStatuses == {201, 500}

\* the items of a page that lists k of them
PageItems(k) == [i \in 1..k |-> i]

\* decoded payloads r.json(): the ok flag, the "messages" array (or no such
\* key), response_metadata (or no such key) and its next_cursor (or none)
Payload(ok, hasKey, items, hasMeta, hasNext, next) ==
    [ ok |-> ok, hasKey |-> hasKey, items |-> items,
      hasMeta |-> hasMeta, hasNext |-> hasNext, next |-> next ]

Payloads ==
    { Payload(ok, TRUE, PageItems(k), TRUE, TRUE, c) :
        ok \in BOOLEAN, k \in 0..MaxItems, c \in NextCursorValues }
    \cup
    { Payload(ok, FALSE, <<>>, TRUE, TRUE, c) :
        ok \in BOOLEAN, c \in NextCursorValues }
    \cup
    { Payload(ok, TRUE, PageItems(k), hasMeta, FALSE, PyNone) :
        ok \in BOOLEAN, k \in 0..MaxItems, hasMeta \in BOOLEAN }
    \cup
    { Payload(ok, FALSE, <<>>, hasMeta, FALSE, PyNone) :
        ok \in BOOLEAN, hasMeta \in BOOLEAN }

NoPayload == Payload(FALSE, FALSE, <<>>, FALSE, FALSE, PyNone)

\* the server announces a further page
ServerContinues(d) == d.hasMeta /\ d.hasNext /\ d.next \in TokenCursorValues

\* the keys of the decoded dict, in document order
PayloadKeys(d) ==
    <<"ok">> \o (IF d.hasKey THEN <<"messages">> ELSE <<>>)
             \o (IF d.hasMeta THEN <<"response_metadata">> ELSE <<>>)

EmptyParams == [k \in {} |-> PyNone]

VARIABLES
    pc,            \* position of paginated_get
    params,        \* the params dict built by channel_history
    combine_key,   \* paginated_get's combine_key
    next_cursor,   \* paginated_get's next_cursor
    result,        \* paginated_get's result list
    page_count,    \* paginated_get's page_count
    data,          \* the page returned by get_at_cursor
    attempt,       \* get_data's attempt
    returned,      \* what paginated_get returned to its caller
    exitReason,    \* which sys.exit(1) ended the process
    responses,     \* history: responses received by the current get_data call
    sleeps,        \* history: sleep() durations of the current get_data call
    lastQuery,     \* history: params of the latest transport call
    served,        \* history: pages get_at_cursor returned, with their cursor
    callerParams,  \* history: the params dict as it was when paginated_get was called
    earlierCalls,  \* history: transport calls of the get_data calls that have ended
    metered        \* whether earlierCalls is kept

vars == << pc, params, combine_key, next_cursor, result, page_count, data,
           attempt, returned, exitReason, responses, sleeps, lastQuery, served,
           callerParams, earlierCalls, metered >>

(***************************************************************************)
(* channel_history builds the params dict and the initial state is         *)
(* paginated_get after its first three assignments.                        *)
(***************************************************************************)
\* params[k] = v
SetItem(f, k, v) == [x \in DOMAIN f \cup {k} |-> IF x = k THEN v ELSE f[x]]

ChannelHistoryParams(oldest, latest) ==
    LET base == [k \in {"channel", "limit"} |->
                    IF k = "channel" THEN PyStrVal(<<"C">>)
                    ELSE PyNum(<<"2", "0", "0">>)]
        withOldest == IF oldest # PyNone THEN SetItem(base, "oldest", oldest) ELSE base
    IN  IF latest # PyNone THEN SetItem(withOldest, "latest", latest) ELSE withOldest

NoReturn == [has |-> FALSE, value |-> <<>>]

Init ==
    /\ pc = "STARTING"
    /\ \E tr \in TimeRanges : params = ChannelHistoryParams(tr[1], tr[2])
    /\ combine_key \in CombineKeys
    /\ next_cursor = PyNone
    /\ result = <<>>
    /\ page_count = 0
    /\ data = NoPayload
    /\ attempt = 0
    /\ returned = NoReturn
    /\ exitReason = ""
    /\ responses = <<>>
    /\ sleeps = <<>>
    /\ lastQuery = EmptyParams
    /\ served = <<>>
    /\ callerParams = params
    /\ earlierCalls = 0
    /\ metered = FALSE

(***************************************************************************)
(* get_at_cursor, lines 66-70: the continuation cursor of a page.          *)
(***************************************************************************)
\* variant: the cursor is compared with "" without strip()
ExtractNextCursor_noStrip(d) ==
    IF d.hasMeta /\ d.hasNext
    THEN IF PyStr(d.next) = <<>> THEN PyNone ELSE d.next
    ELSE PyNone

ExtractNextCursor(d) ==
    IF d.hasMeta /\ d.hasNext
    THEN IF Strip(PyStr(d.next)) = <<>> THEN PyNone ELSE d.next
    ELSE PyNone

(***************************************************************************)
(* One pass of paginated_get's loop up to the first transport call:        *)
(* page_count += 1, get_at_cursor merges the cursor into params, get_data  *)
(* sets attempt = 0.                                                       *)
(***************************************************************************)
\* variant: get_at_cursor never merges the cursor into params
EnterGetAtCursor_noCursor(cursor) ==
    /\ page_count' = page_count + 1
    /\ params' = params
    /\ attempt' = 0
    /\ responses' = <<>>
    /\ sleeps' = <<>>
    /\ pc' = "AWAITING_PAGE"
    /\ earlierCalls' = IF metered THEN earlierCalls + Len(responses) ELSE earlierCalls

\* variant: attempt is set to 0 once per fetch, not once per get_data call
EnterGetAtCursor_oneBudget(cursor) ==
    /\ page_count' = page_count + 1
    /\ params' = IF cursor # PyNone THEN SetItem(params, "cursor", cursor) ELSE params
    /\ attempt' = attempt
    /\ responses' = <<>>
    /\ sleeps' = <<>>
    /\ pc' = "AWAITING_PAGE"
    /\ earlierCalls' = IF metered THEN earlierCalls + Len(responses) ELSE earlierCalls

EnterGetAtCursor(cursor) ==
    /\ page_count' = page_count + 1
    /\ params' = IF cursor # PyNone THEN SetItem(params, "cursor", cursor) ELSE params
    /\ attempt' = 0
    /\ responses' = <<>>
    /\ sleeps' = <<>>
    /\ pc' = "AWAITING_PAGE"
    /\ earlierCalls' = IF metered THEN earlierCalls + Len(responses) ELSE earlierCalls

PaginatedGetStart ==
    /\ pc = "STARTING"
    /\ EnterGetAtCursor(next_cursor)
    /\ UNCHANGED << combine_key, next_cursor, result, data, returned,
                    exitReason, lastQuery, served,
                    callerParams, metered >>

(***************************************************************************)
(* get_data: one iteration of the retry loop.                              *)
(***************************************************************************)
\* a response as get_data sees it: the status code, the Retry-After header
\* (0 where the status is not 429) and the ok flag of the body (TRUE where
\* the body is never decoded)
Response(status, retryAfter, ok) ==
    [status |-> status, retryAfter |-> retryAfter, ok |-> ok]

\* variant: the loop condition reads attempt <= MAX_RETRIES
TransportCall_offByOne(r) ==
    /\ pc = "AWAITING_PAGE"
    /\ attempt <= MAX_RETRIES
    /\ lastQuery' = params
    /\ responses' = Append(responses, r)
    /\ attempt' = attempt + 1

\* variant: attempt is incremented in the 429 branch only
TransportCall_countRateLimits(r) ==
    /\ pc = "AWAITING_PAGE"
    /\ attempt < MAX_RETRIES
    /\ lastQuery' = params
    /\ responses' = Append(responses, r)
    /\ attempt' = IF r.status = 429 THEN attempt + 1 ELSE attempt

\* r = _get_data(url, params); attempt += 1
TransportCall(r) ==
    /\ pc = "AWAITING_PAGE"
    /\ attempt < MAX_RETRIES
    /\ lastQuery' = params
    /\ responses' = Append(responses, r)
    /\ attempt' = attempt + 1

RetryAfterChoices ==
    IF Len(responses) < VariedRetryAfter THEN RetryAfterValues ELSE {DefaultRetryAfter}

\* variant: sleep(retry_after), without the additional time
GetDataRateLimited_noMargin ==
    \E ra \in RetryAfterChoices :
        /\ TransportCall(Response(429, ra, TRUE))
        /\ sleeps' = Append(sleeps, ra)
        /\ UNCHANGED << pc, params, combine_key, next_cursor, result, page_count,
                        data, returned, exitReason, served,
                        callerParams, metered, earlierCalls >>

\* status 429: sleep and go round the loop again
GetDataRateLimited ==
    \E ra \in RetryAfterChoices :
        /\ TransportCall(Response(429, ra, TRUE))
        /\ sleeps' = Append(sleeps, ra + ADDITIONAL_SLEEP_TIME)
        /\ UNCHANGED << pc, params, combine_key, next_cursor, result, page_count,
                        data, returned, exitReason, served,
                        callerParams, metered, earlierCalls >>

\* variant: when the loop condition fails the counter starts over
GetDataMaxRetries_startsOver ==
    /\ pc = "AWAITING_PAGE"
    /\ ~(attempt < MAX_RETRIES)
    /\ attempt' = 0
    /\ responses' = <<>>
    /\ sleeps' = <<>>
    /\ UNCHANGED << pc, params, combine_key, next_cursor, result, page_count, data,
                    returned, exitReason, lastQuery, served,
                    callerParams, metered, earlierCalls >>

\* the loop condition fails: lines 47-48
GetDataMaxRetries ==
    /\ pc = "AWAITING_PAGE"
    /\ ~(attempt < MAX_RETRIES)
    /\ pc' = "FAILED"
    /\ exitReason' = "max_retries"
    /\ UNCHANGED << params, combine_key, next_cursor, result, page_count, data,
                    attempt, returned, responses, sleeps, lastQuery, served,
                    callerParams, metered, earlierCalls >>

(***************************************************************************)
(* get_at_cursor on the response get_data returned.                        *)
(***************************************************************************)
\* r.status_code != 200
GetAtCursorHttpError ==
    \E status \in ErrorStatuses :
        /\ TransportCall(Response(status, 0, TRUE))
        /\ pc' = "FAILED"
        /\ exitReason' = "http_error"
        /\ UNCHANGED << params, combine_key, next_cursor, result, page_count,
                        data, returned, sleeps, served,
                        callerParams, metered, earlierCalls >>

\* variant: the ok flag is not looked at
NotOk_never(d) == FALSE

\* d["ok"] is False
NotOk(d) == d.ok = FALSE

GetAtCursorNotOk ==
    \E d \in Payloads :
        /\ NotOk(d)
        /\ TransportCall(Response(200, 0, d.ok))
        /\ pc' = "FAILED"
        /\ exitReason' = "not_ok"
        /\ UNCHANGED << params, combine_key, next_cursor, result, page_count,
                        data, returned, sleeps, served,
                        callerParams, metered, earlierCalls >>

\* return next_cursor, d
GetAtCursorReturn ==
    \E d \in Payloads :
        /\ ~NotOk(d)
        /\ ServerContinues(d) => page_count < MaxPages
        /\ TransportCall(Response(200, 0, d.ok))
        /\ next_cursor' = ExtractNextCursor(d)
        /\ data' = d
        /\ served' = Append(served, [page |-> d, cursor |-> ExtractNextCursor(d)])
        /\ pc' = "MERGING"
        /\ UNCHANGED << params, combine_key, result, page_count, returned,
                        exitReason, sleeps,
                        callerParams, metered, earlierCalls >>

(***************************************************************************)
(* paginated_get, lines 85-99: merge the page, then stop or go on.         *)
(***************************************************************************)
\* variant: a page with an empty array is refused like a missing key
KeyError_emptyPage == combine_key # NoCombineKey /\ (~data.hasKey \/ data.items = <<>>)

\* variant: data.get(combine_key, []) in place of data[combine_key]
KeyError_never == FALSE

\* data[combine_key] raises KeyError
KeyError == combine_key # NoCombineKey /\ ~data.hasKey

\* variant: the page is put in front of the result
Extend_prepend(res, d) ==
    IF combine_key = NoCombineKey THEN PayloadKeys(d) \o res ELSE d.items \o res

\* result.extend(...)
Extend(res, d) ==
    IF combine_key = NoCombineKey THEN res \o PayloadKeys(d) ELSE res \o d.items

MergeKeyError ==
    /\ pc = "MERGING"
    /\ KeyError
    /\ pc' = "FAILED"
    /\ exitReason' = "key_error"
    /\ UNCHANGED << params, combine_key, next_cursor, result, page_count, data,
                    attempt, returned, responses, sleeps, lastQuery, served,
                    callerParams, metered, earlierCalls >>

MergeBreak ==
    /\ pc = "MERGING"
    /\ ~KeyError
    /\ next_cursor = PyNone
    /\ result' = Extend(result, data)
    /\ returned' = [has |-> TRUE, value |-> result']
    /\ pc' = "DONE"
    /\ UNCHANGED << params, combine_key, next_cursor, page_count, data, attempt,
                    exitReason, responses, sleeps, lastQuery, served,
                    callerParams, metered, earlierCalls >>

\* variant: the next page is requested without extending the result
MergeContinue_noAppend ==
    /\ pc = "MERGING"
    /\ ~KeyError
    /\ next_cursor # PyNone
    /\ result' = result
    /\ EnterGetAtCursor(next_cursor)
    /\ UNCHANGED << combine_key, next_cursor, data, returned, exitReason,
                    lastQuery, served,
                    callerParams, metered >>

MergeContinue ==
    /\ pc = "MERGING"
    /\ ~KeyError
    /\ next_cursor # PyNone
    /\ result' = Extend(result, data)
    /\ EnterGetAtCursor(next_cursor)
    /\ UNCHANGED << combine_key, next_cursor, data, returned, exitReason,
                    lastQuery, served,
                    callerParams, metered >>

Next ==
    \/ PaginatedGetStart
    \/ GetDataRateLimited
    \/ GetDataMaxRetries
    \/ GetAtCursorHttpError
    \/ GetAtCursorNotOk
    \/ GetAtCursorReturn
    \/ MergeKeyError
    \/ MergeBreak
    \/ MergeContinue

Spec == Init /\ [][Next]_vars

\* the process keeps running: the calls are blocking and every transport
\* call gets a response, so a step that can be taken is taken
\* channel_history(channel_id), without a time range
InitFullHistory == Init /\ params = ChannelHistoryParams(PyNone, PyNone)

\* the same call, with combine_key="messages" as channel_history passes it
\* and with the transport calls of the whole fetch counted
InitMetered ==
    /\ pc = "STARTING"
    /\ params = ChannelHistoryParams(PyNone, PyNone)
    /\ combine_key = "messages"
    /\ next_cursor = PyNone
    /\ result = <<>>
    /\ page_count = 0
    /\ data = NoPayload
    /\ attempt = 0
    /\ returned = NoReturn
    /\ exitReason = ""
    /\ responses = <<>>
    /\ sleeps = <<>>
    /\ lastQuery = EmptyParams
    /\ served = <<>>
    /\ callerParams = params
    /\ earlierCalls = 0
    /\ metered = TRUE

SpecMetered == InitMetered /\ [][Next]_vars

(***************************************************************************)
(* A caller that keeps its params dict and, once paginated_get has         *)
(* returned, calls it again with that same dict.                           *)
(***************************************************************************)
PaginatedGetAgain ==
    /\ pc = "DONE"
    /\ pc' = "STARTING"
    /\ callerParams' = params
    /\ next_cursor' = PyNone
    /\ result' = <<>>
    /\ page_count' = 0
    /\ data' = NoPayload
    /\ attempt' = 0
    /\ returned' = NoReturn
    /\ responses' = <<>>
    /\ sleeps' = <<>>
    /\ lastQuery' = EmptyParams
    /\ served' = <<>>
    /\ earlierCalls' = 0
    /\ UNCHANGED << params, combine_key, exitReason, metered >>

NextReuse ==
    \/ Next
    \/ PaginatedGetAgain

SpecReuse == Init /\ [][NextReuse]_vars

FairSpec == InitFullHistory /\ [][Next]_vars /\ WF_vars(Next)

TypeOK ==
    /\ pc \in {"STARTING", "AWAITING_PAGE", "MERGING", "DONE", "FAILED"}
    /\ attempt \in 0..MAX_RETRIES
    /\ page_count \in 0..MaxPages

(***************************************************************************)
(* Properties.                                                             *)
(***************************************************************************)
Last(seq) == seq[Len(seq)]

\* the items of the pages in page order, each page in its own order
RECURSIVE ServedItems(_)
ServedItems(pages) ==
    IF pages = <<>> THEN <<>>
    ELSE ServedItems(SubSeq(pages, 1, Len(pages) - 1)) \o Last(pages).page.items

RECURSIVE SumOfSizes(_)
SumOfSizes(pages) ==
    IF pages = <<>> THEN 0
    ELSE SumOfSizes(Tail(pages)) + Len(Head(pages).page.items)

RateLimited(resps) == {i \in 1..Len(resps) : resps[i].status = 429}
AllRateLimited(resps) == RateLimited(resps) = 1..Len(resps)

\* C1: when paginated_get returns after N successful pages, all carrying the
\* requested key, the returned list is the concatenation of the pages' item
\* lists in page order and in-page order, so its length is k_1 + ... + k_N.
C1_PaginationCompleteness ==
    (pc = "DONE" /\ combine_key # NoCombineKey) =>
        /\ returned.has
        /\ returned.value = ServedItems(served)
        /\ Len(returned.value) = SumOfSizes(served)
        /\ Len(served) = page_count
        /\ \A i \in 1..Len(served) - 1 : ServerContinues(served[i].page)
        /\ ~ServerContinues(Last(served).page)

C1_Witness ==
    /\ pc = "DONE"
    /\ combine_key = "messages"
    /\ Len(served) = 2
    /\ served[1].page.items = <<1>>
    /\ served[2].page.items = <<1, 2>>
    /\ returned.value = <<1, 1, 2>>

C3_Bounded ==
    /\ Len(responses) <= MAX_RETRIES
    /\ (Len(responses) = MAX_RETRIES /\ AllRateLimited(responses)) =>
          /\ pc \in {"AWAITING_PAGE", "FAILED"}
          /\ ~returned.has
          /\ pc = "FAILED" => exitReason = "max_retries"

C3_GivesUp ==
    (pc = "AWAITING_PAGE" /\ Len(responses) = MAX_RETRIES /\ AllRateLimited(responses)) =>
        /\ pc' = "FAILED"
        /\ exitReason' = "max_retries"
        /\ responses' = responses
        /\ lastQuery' = lastQuery
        /\ ~returned'.has

C3_RetryExhaustion == []C3_Bounded /\ [][C3_GivesUp]_vars

C3_Witness ==
    /\ pc = "FAILED"
    /\ exitReason = "max_retries"
    /\ Len(responses) = MAX_RETRIES
    /\ AllRateLimited(responses)

\* C4: the i-th sleep of a get_data call follows its i-th response, which is
\* a 429, and lasts that response's Retry-After plus ADDITIONAL_SLEEP_TIME;
\* there are as many sleeps as 429 responses, none after another status.
\* After 429 (Retry-After 3), 429 (Retry-After 1), 200 the page is
\* returned with the sleeps 5 and 3.
C4_RateLimitRecovery ==
    /\ Len(sleeps) = Cardinality(RateLimited(responses))
    /\ \A i \in 1..Len(sleeps) :
          /\ responses[i].status = 429
          /\ sleeps[i] = responses[i].retryAfter + ADDITIONAL_SLEEP_TIME
    /\ \A i \in 1..Len(responses) : responses[i].status # 429 => i = Len(sleeps) + 1
    /\ ( /\ Len(responses) = 3
         /\ responses[1] = Response(429, 3, TRUE)
         /\ responses[2] = Response(429, 1, TRUE)
         /\ responses[3] = Response(200, 0, TRUE) )
       => (pc \in {"MERGING", "DONE", "FAILED"} /\ sleeps = <<5, 3>>)

C4_Witness ==
    /\ pc = "MERGING"
    /\ responses = << Response(429, 3, TRUE), Response(429, 1, TRUE), Response(200, 0, TRUE) >>
    /\ sleeps = <<5, 3>>

\* C5 as stated: attempt equals the number of 429 responses received so far.
C5_CountsRateLimits == attempt = Cardinality(RateLimited(responses))

\* C5: attempt starts at 0 and is incremented after every transport call, so
\* it equals the number of responses received so far by this get_data call;
\* when the call returns after k 429 responses and one other response,
\* attempt is k + 1.
C5_CountsResponses ==
    /\ attempt = Len(responses)
    /\ (responses # <<>> /\ Last(responses).status # 429) =>
          attempt = Cardinality(RateLimited(responses)) + 1
    /\ AllRateLimited(responses) => attempt = Cardinality(RateLimited(responses))

C5_Witness ==
    /\ pc = "MERGING"
    /\ Len(responses) = 3
    /\ RateLimited(responses) = {1, 2}
    /\ responses[3].status = 200
    /\ attempt = 3

IsBlankString(v) == v.t = "str" /\ \A i \in 1..Len(v.s) : v.s[i] \in Whitespace

\* no response_metadata, no next_cursor in it, or a blank next_cursor
NoCursorAsStated(d) == ~d.hasMeta \/ ~d.hasNext \/ IsBlankString(d.next)

\* ... or a next_cursor that is JSON null
NoCursorAmended(d) == NoCursorAsStated(d) \/ d.next = PyNone

\* C6 as stated: get_at_cursor returns None, and paginated_get stops after
\* the page, exactly when response_metadata or next_cursor is absent or
\* next_cursor is blank; otherwise the token is returned unchanged and
\* another page is requested.
C6_BlankCursorAsStated ==
    /\ \A i \in 1..Len(served) :
          served[i].cursor =
              IF NoCursorAsStated(served[i].page) THEN PyNone ELSE served[i].page.next
    /\ \A i \in 1..Len(served) - 1 : ~NoCursorAsStated(served[i].page)
    /\ pc = "DONE" => NoCursorAsStated(Last(served).page)

\* C6: get_at_cursor returns None, and paginated_get stops after the page,
\* exactly when response_metadata or next_cursor is absent, or next_cursor
\* is blank or JSON null; otherwise the token is returned unchanged and
\* another page is requested.
C6_BlankCursorNormalization ==
    /\ \A i \in 1..Len(served) :
          served[i].cursor =
              IF NoCursorAmended(served[i].page) THEN PyNone ELSE served[i].page.next
    /\ \A i \in 1..Len(served) - 1 : ~NoCursorAmended(served[i].page)
    /\ pc = "DONE" => NoCursorAmended(Last(served).page)
    /\ pc = "MERGING" => (next_cursor = PyNone <=> NoCursorAmended(data))

C6_Witness ==
    /\ pc = "DONE"
    /\ Len(served) = 2
    /\ served[1].page.next = PyStrVal(<<" ", "a", " ">>)
    /\ served[1].cursor = PyStrVal(<<" ", "a", " ">>)
    /\ served[2].page.hasNext
    /\ served[2].page.next = PyStrVal(<<" ", "\t">>)
    /\ served[2].cursor = PyNone

\* C7: a finished paginated_get has requested at least one page; when the
\* first page received has no next_cursor field, it stays the only page,
\* and the merge step returns its items (the empty list if it has none).
C7_OnePage ==
    /\ pc \in {"MERGING", "DONE", "FAILED"} => (page_count >= 1 /\ responses # <<>>)
    /\ (served # <<>> /\ ~(served[1].page.hasMeta /\ served[1].page.hasNext)) =>
          /\ Len(served) = 1
          /\ page_count = 1
          /\ pc \in {"MERGING", "DONE", "FAILED"}
          /\ pc = "FAILED" => (combine_key # NoCombineKey /\ ~served[1].page.hasKey)
          /\ (pc = "DONE" /\ combine_key # NoCombineKey) =>
                returned = [has |-> TRUE, value |-> served[1].page.items]

C7_Returns ==
    ( /\ pc = "MERGING"
      /\ Len(served) = 1
      /\ ~(data.hasMeta /\ data.hasNext)
      /\ combine_key # NoCombineKey => data.hasKey )
    => (pc' = "DONE" /\ returned'.has /\ page_count' = 1 /\ lastQuery' = lastQuery)

C7_SinglePageTermination == []C7_OnePage /\ [][C7_Returns]_vars

C7_Witness ==
    /\ pc = "DONE"
    /\ combine_key = "messages"
    /\ page_count = 1
    /\ ~served[1].page.hasNext
    /\ served[1].page.items = <<>>
    /\ returned = [has |-> TRUE, value |-> <<>>]

\* C8: with a combine_key, a page without that key is the last page
\* requested: paginated_get is about to exit or has exited on it, nothing
\* is returned and no further page is requested.
C8_MalformedPayload ==
    \A i \in 1..Len(served) :
        (combine_key # NoCombineKey /\ ~served[i].page.hasKey) =>
            /\ i = Len(served)
            /\ page_count = i
            /\ pc \in {"MERGING", "FAILED"}
            /\ pc = "FAILED" => exitReason = "key_error"
            /\ ~returned.has

C8_Witness ==
    /\ pc = "FAILED"
    /\ exitReason = "key_error"
    /\ Len(served) = 2
    /\ result # <<>>
    /\ ~served[2].page.hasKey

\* a step that makes a transport call
Receives == Len(responses') = Len(responses) + 1

FatalResponse(r) ==
    \/ r.status \notin 200..299 /\ r.status # 429
    \/ r.status \in 200..299 /\ r.ok = FALSE

\* C9: a response with a status that is neither 2xx nor 429, a 2xx response
\* whose ok flag is false, and MAX_RETRIES 429 responses in a row each end
\* paginated_get in failure at once: nothing is returned, the response is
\* not retried, and no step follows the failure.
C9_NoResult == pc = "FAILED" => ~returned.has

C9_Aborts ==
    /\ pc # "FAILED"
    /\ (Receives /\ FatalResponse(Last(responses'))) =>
          (pc' = "FAILED" /\ ~returned'.has)
    /\ (~Receives /\ pc = "AWAITING_PAGE"
          /\ Len(responses) = MAX_RETRIES /\ AllRateLimited(responses)) =>
          (pc' = "FAILED" /\ ~returned'.has)

C9_AllOrNothing == []C9_NoResult /\ [][C9_Aborts]_vars

C9_Witness ==
    /\ pc = "FAILED"
    /\ exitReason = "not_ok"
    /\ page_count = 2
    /\ result # <<>>
    /\ Last(responses) = Response(200, 0, FALSE)
    /\ ~returned.has

StatedTransitions ==
    { <<"STARTING", "AWAITING_PAGE">>, <<"AWAITING_PAGE", "MERGING">>,
      <<"AWAITING_PAGE", "FAILED">>, <<"MERGING", "AWAITING_PAGE">>,
      <<"MERGING", "DONE">> }

\* C10 as stated: paginated_get changes state along the five listed
\* transitions only.
C10_TransitionsAsStated == [][pc' # pc => <<pc, pc'>> \in StatedTransitions]_vars

\* C10: paginated_get changes state along the five listed transitions and
\* along MERGING -> FAILED, taken when the page lacks the requested key; no
\* step leaves DONE or FAILED; and whenever a page is being requested, the
\* items of all pages received before it are already in the result.
C10_Transition ==
    /\ pc \notin {"DONE", "FAILED"}
    /\ pc' # pc =>
          \/ <<pc, pc'>> \in StatedTransitions
          \/ /\ <<pc, pc'>> = <<"MERGING", "FAILED">>
             /\ combine_key # NoCombineKey
             /\ ~data.hasKey
    /\ <<pc, pc'>> = <<"AWAITING_PAGE", "MERGING">> <=> Len(served') = Len(served) + 1
    /\ <<pc, pc'>> = <<"MERGING", "DONE">> => next_cursor = PyNone
    /\ <<pc, pc'>> = <<"MERGING", "AWAITING_PAGE">> => next_cursor # PyNone

C10_Sequential ==
    pc = "AWAITING_PAGE" =>
        /\ Len(served) = page_count - 1
        /\ combine_key # NoCombineKey => result = ServedItems(served)

C10_StateMachine == []C10_Sequential /\ [][C10_Transition]_vars

C10_Witness ==
    /\ pc = "AWAITING_PAGE"
    /\ page_count = 2
    /\ responses # <<>>
    /\ combine_key = "messages"
    /\ result = <<1, 2>>

\* C11: every run of paginated_get reaches DONE or FAILED, whatever mix of
\* 429 and other responses the server sends; every page request, once
\* begun, ends with a page returned or a fatal exit, and it has received at
\* most MAX_RETRIES responses by then.
C11_Resolves ==
    /\ Len(responses) <= MAX_RETRIES
    /\ pc \in {"DONE", "FAILED"} => page_count <= MaxPages

C11_Termination ==
    /\ <>(pc \in {"DONE", "FAILED"})
    /\ (pc = "AWAITING_PAGE") ~> (pc \in {"MERGING", "FAILED"})
    /\ []C11_Resolves

C11_Witness ==
    /\ pc = "DONE"
    /\ page_count = 2
    /\ Len(responses) = MAX_RETRIES
    /\ RateLimited(responses) = 1..(MAX_RETRIES - 1)

\* transport calls of the fetch so far (under SpecMetered)
TotalCalls == earlierCalls + Len(responses)

\* C12: every get_data call starts with attempt 0 and counts its own
\* transport calls only, so however many 429 responses the earlier pages
\* absorbed, a page request may still make MAX_RETRIES calls; a fetch that
\* has requested P pages has made at most P * MAX_RETRIES transport calls;
\* and the exit for exceeded retries is taken only after MAX_RETRIES 429
\* responses in a row to one page request.
C12_RetryBudgetPerPage ==
    /\ responses = <<>> => attempt = 0
    /\ attempt = TotalCalls - earlierCalls
    /\ page_count >= 1 =>
          /\ earlierCalls <= (page_count - 1) * MAX_RETRIES
          /\ earlierCalls >= page_count - 1
          /\ TotalCalls <= page_count * MAX_RETRIES
    /\ (pc = "AWAITING_PAGE" /\ Len(responses) < MAX_RETRIES) => attempt < MAX_RETRIES
    /\ exitReason = "max_retries" =>
          (Len(responses) = MAX_RETRIES /\ AllRateLimited(responses))

C12_Witness ==
    /\ pc = "DONE"
    /\ page_count = 2
    /\ earlierCalls = MAX_RETRIES
    /\ Len(responses) = MAX_RETRIES
    /\ RateLimited(responses) = 1..(MAX_RETRIES - 1)
    /\ TotalCalls = 2 * MAX_RETRIES

\* C13: when paginated_get has returned, the params dict of its caller holds
\* the keys and values it held when the call was made, and the first page
\* request of a call, also of a call that reuses the dict of an earlier
\* multi-page fetch, carries no cursor parameter unless the caller put one
\* there.
C13_ParamsUnchanged ==
    /\ pc = "DONE" => params = callerParams
    /\ (responses # <<>> /\ page_count = 1) =>
          \E tr \in TimeRanges : lastQuery = ChannelHistoryParams(tr[1], tr[2])

====
